---- MODULE Spec2Model ----
(***************************************************************************)
(* State-machine model of src/games/Azul-test.py: the two-player Azul      *)
(* engine (class Azul_game) and its MuZero wrapper (class Azul).           *)
(*                                                                         *)
(* The engine object is one record, `game`, whose fields carry the names   *)
(* of the attributes of Azul_game.  Every method of the engine is an       *)
(* operator from a game record (and the arguments) to the game record      *)
(* after the call, written statement by statement after the Python.        *)
(* Staging rows hold 0 for "empty" and colour+1 otherwise, as the source   *)
(* does; walls and penalty tracks hold 0/1.                                *)
(***************************************************************************)
EXTENDS Integers, Sequences, FiniteSets, TLC

VARIABLES
    game,          \* Azul.game: the Azul_game object
    player,        \* Azul.player: the wrapper's cached player index
    last,          \* the last call: its name, what it returned and, for
                   \* an accepted step, the triple played
    rounds,        \* history: create_drawing_pit calls on this game object
    done_steps,    \* history: steps taken since the round became complete
    first_center,  \* history: who made the first successful centre draft
                   \* of the current round ("" while nobody has)
    codec          \* the action codec at work on one triple

vars == <<game, player, last, rounds, done_steps, first_center, codec>>

(***************************************************************************)
(* Bounds of the exploration (not program constants).                      *)
(***************************************************************************)
\* Spec: the fills of factory 0 hold 1..MaxMixed tiles of the second colour
MaxMixed == 1
\* SpecRounds: in rounds 1..MaxMixedRounds factory 0 holds two more colours
MaxMixedRounds == 2
\* SpecRounds: number of rounds played; create_drawing_pit is called on the
\* game object between them, and once more when gameover is set
MaxRounds == 5
\* number of steps explored after a round is complete
MaxDoneSteps == 1
\* number of further steps explored once gameover is set
MaxOverSteps == 1

(***************************************************************************)
(* Index sets fixed by the source.                                         *)
(***************************************************************************)
Colors   == 0..4        \* tile_type
Pits     == 0..5        \* drawing_pit index; 5 is the centre (discard pit)
Targets  == 0..5        \* column_choice; 5 is the penalty row
RowIdx   == 0..4
PenIdx   == 0..6
Players  == {"P1", "P2"}

ZeroPit      == [c \in Colors |-> 0]
ZeroPenalty  == [i \in PenIdx |-> 0]
ZeroBoard    == [r \in RowIdx |-> [c \in RowIdx |-> 0]]

initialize_rows == [r \in RowIdx |-> [i \in 0..r |-> 0]]

(***************************************************************************)
(* The "if player == 'P1' ... else ..." selections of the source.          *)
(***************************************************************************)
rows_of(G, p)        == IF p = "P1" THEN G.rows_p1 ELSE G.rows_p2
board_of(G, p)       == IF p = "P1" THEN G.board_p1 ELSE G.board_p2
penalty_row_of(G, p) == IF p = "P1" THEN G.penalty_row_p1 ELSE G.penalty_row_p2
score_of(G, p)       == IF p = "P1" THEN G.p1_score ELSE G.p2_score

set_rows(G, p, v) ==
    IF p = "P1" THEN [G EXCEPT !.rows_p1 = v] ELSE [G EXCEPT !.rows_p2 = v]
set_board(G, p, v) ==
    IF p = "P1" THEN [G EXCEPT !.board_p1 = v] ELSE [G EXCEPT !.board_p2 = v]
set_penalty_row(G, p, v) ==
    IF p = "P1" THEN [G EXCEPT !.penalty_row_p1 = v]
                ELSE [G EXCEPT !.penalty_row_p2 = v]

(***************************************************************************)
(* create_drawing_pit.  draws[i][j] is the j-th value np.random.randint    *)
(* returns while factory i is filled.                                      *)
(***************************************************************************)
FilledPit(d) == [c \in Colors |-> Cardinality({j \in 0..3 : d[j] = c})]

\* variant: the penalty tracks are kept from round to round
create_drawing_pit_keeps_tracks(G, draws) ==
    [G EXCEPT !.new_first_player = TRUE,
              !.player_turn = G.initial_player,
              !.is_done_phase = FALSE,
              !.drawing_pit = [i \in Pits |->
                   IF i = 5 THEN ZeroPit ELSE FilledPit(draws[i])]]

create_drawing_pit(G, draws) ==
    [G EXCEPT !.new_first_player = TRUE,
              !.player_turn = G.initial_player,
              !.is_done_phase = FALSE,
              !.penalty_row_p1 = ZeroPenalty,
              !.penalty_row_p2 = ZeroPenalty,
              !.drawing_pit = [i \in Pits |->
                   IF i = 5 THEN ZeroPit ELSE FilledPit(draws[i])]]

(***************************************************************************)
(* Azul_game.__init__                                                      *)
(***************************************************************************)
Azul_game(draws) ==
    LET G0 == [p1_score |-> 0, p2_score |-> 0,
               player_turn |-> "P1", initial_player |-> "P1",
               new_first_player |-> TRUE,
               board_p1 |-> ZeroBoard, board_p2 |-> ZeroBoard,
               rows_p1 |-> initialize_rows, rows_p2 |-> initialize_rows,
               penalty_row_p1 |-> ZeroPenalty, penalty_row_p2 |-> ZeroPenalty,
               drawing_pit |-> [i \in Pits |-> ZeroPit],
               gameover |-> FALSE, is_done_phase |-> FALSE,
               inserted_tile_in_column_for_action |-> 0,
               penality_for_action |-> 0]
    IN  [create_drawing_pit(G0, draws) EXCEPT
              !.gameover = FALSE, !.is_done_phase = FALSE,
              !.inserted_tile_in_column_for_action = 0,
              !.penality_for_action = 0]

(***************************************************************************)
(* valid_move                                                              *)
(***************************************************************************)
\* variant: the staging row is not looked at
valid_move_any_row(G, p, pit_choice, tile_type, column_choice) ==
    LET drawed_tile == G.drawing_pit[pit_choice][tile_type]
        scoreboard  == IF p = "P1" THEN G.board_p1 ELSE G.board_p2
        position    == (tile_type + column_choice) % 5
    IN  IF drawed_tile = 0 THEN FALSE
        ELSE IF column_choice # 5
             THEN scoreboard[column_choice][position] # 1
             ELSE TRUE

\* variant: the wall is not looked at
valid_move_any_wall(G, p, pit_choice, tile_type, column_choice) ==
    LET drawed_tile == G.drawing_pit[pit_choice][tile_type]
        rows        == rows_of(G, p)
    IN  IF drawed_tile = 0 THEN FALSE
        ELSE IF column_choice # 5
             THEN IF rows[column_choice][0] = 0
                     \/ rows[column_choice][0] = tile_type + 1
                  THEN TRUE
                  ELSE FALSE
             ELSE TRUE

\* variant: a draft into the penalty row is refused when the track is full
valid_move_full_track(G, p, pit_choice, tile_type, column_choice) ==
    LET drawed_tile == G.drawing_pit[pit_choice][tile_type]
        rows        == rows_of(G, p)
        scoreboard  == board_of(G, p)
        position    == (tile_type + column_choice) % 5
    IN  IF drawed_tile = 0 THEN FALSE
        ELSE IF column_choice # 5
             THEN IF scoreboard[column_choice][position] = 1 THEN FALSE
                  ELSE IF rows[column_choice][0] = 0
                          \/ rows[column_choice][0] = tile_type + 1
                       THEN TRUE
                       ELSE FALSE
             ELSE \E i \in 0..6 : penalty_row_of(G, p)[i] = 0

valid_move(G, p, pit_choice, tile_type, column_choice) ==
    LET drawed_tile == G.drawing_pit[pit_choice][tile_type]
        rows        == rows_of(G, p)
        scoreboard  == board_of(G, p)
        position    == (tile_type + column_choice) % 5
    IN  IF drawed_tile = 0 THEN FALSE
        ELSE IF column_choice # 5
             THEN IF scoreboard[column_choice][position] = 1 THEN FALSE
                  ELSE IF rows[column_choice][0] = 0
                          \/ rows[column_choice][0] = tile_type + 1
                       THEN TRUE
                       ELSE FALSE
             ELSE TRUE

(***************************************************************************)
(* take_tile_from_pit: the game after the call and the value returned.     *)
(***************************************************************************)
\* variant: the drafted tiles go to the centre with the rest of the factory
take_tile_from_pit_keeps_drafted(G, pit_choice, tile_type, p) ==
    LET drawed_tiles == G.drawing_pit[pit_choice][tile_type]
        G2 == IF ~G.new_first_player
              THEN [G EXCEPT !.new_first_player = FALSE,
                             !.initial_player = p]
              ELSE G
        G3 == IF pit_choice # 5
              THEN [G2 EXCEPT
                     !.drawing_pit = [i \in Pits |->
                        IF i = pit_choice THEN ZeroPit
                        ELSE IF i = 5
                             THEN [c \in Colors |->
                                     G2.drawing_pit[5][c]
                                       + G2.drawing_pit[pit_choice][c]]
                             ELSE G2.drawing_pit[i]]]
              ELSE [G2 EXCEPT !.drawing_pit[5][tile_type] = 0]
    IN  [g |-> G3, drawed_tiles |-> drawed_tiles]

take_tile_from_pit(G, pit_choice, tile_type, p) ==
    LET drawed_tiles == G.drawing_pit[pit_choice][tile_type]
        G1 == [G EXCEPT !.drawing_pit[pit_choice][tile_type] = 0]
        G2 == IF ~G1.new_first_player
              THEN [G1 EXCEPT !.new_first_player = FALSE,
                              !.initial_player = p]
              ELSE G1
        G3 == IF pit_choice # 5
              THEN [G2 EXCEPT
                     !.drawing_pit = [i \in Pits |->
                        IF i = pit_choice THEN ZeroPit
                        ELSE IF i = 5
                             THEN [c \in Colors |->
                                     G2.drawing_pit[5][c]
                                       + G2.drawing_pit[pit_choice][c]]
                             ELSE G2.drawing_pit[i]]]
              ELSE G2
    IN  [g |-> G3, drawed_tiles |-> drawed_tiles]

(***************************************************************************)
(* insert_tiles_in_penalty_column: the loop over the 7 slots.  The state   *)
(* of the loop is the track, the tiles left and the cost added so far.     *)
(***************************************************************************)
PenaltyCost(i) == IF i < 2 THEN 1 ELSE IF i < 5 THEN 2 ELSE 3

RECURSIVE PenaltyLoop(_, _, _, _)
PenaltyLoop(i, row, n, cost) ==
    IF i > 6 THEN [row |-> row, cost |-> cost]
    ELSE IF row[i] = 0 /\ n > 0
         THEN PenaltyLoop(i + 1, [row EXCEPT ![i] = 1], n - 1,
                          cost + PenaltyCost(i))
         ELSE PenaltyLoop(i + 1, row, n, cost)

\* variant: each tile that finds no free slot costs the player one point
insert_tiles_in_penalty_column_surplus_charged(G, number_of_tiles, p) ==
    LET r == PenaltyLoop(0, penalty_row_of(G, p), number_of_tiles, 0)
        k == Cardinality({i \in PenIdx : penalty_row_of(G, p)[i] = 0})
        G1 == [set_penalty_row(G, p, r.row) EXCEPT !.penality_for_action = r.cost]
    IN  IF number_of_tiles <= k THEN G1
        ELSE IF p = "P1"
             THEN [G1 EXCEPT !.p1_score = G1.p1_score - (number_of_tiles - k)]
             ELSE [G1 EXCEPT !.p2_score = G1.p2_score - (number_of_tiles - k)]

insert_tiles_in_penalty_column(G, number_of_tiles, p) ==
    LET r == PenaltyLoop(0, penalty_row_of(G, p), number_of_tiles, 0)
    IN  [set_penalty_row(G, p, r.row) EXCEPT !.penality_for_action = r.cost]

(***************************************************************************)
(* insert_tiles_in_column: the loop over the slots of the staging row.     *)
(***************************************************************************)
RECURSIVE ColumnLoop(_, _, _, _, _, _)
ColumnLoop(i, last_index, row, tile_type, n, inserted) ==
    IF i > last_index THEN [row |-> row, n |-> n, inserted |-> inserted]
    ELSE IF row[i] = 0 /\ n > 0
         THEN ColumnLoop(i + 1, last_index, [row EXCEPT ![i] = tile_type + 1],
                         tile_type, n - 1, inserted + 1)
         ELSE ColumnLoop(i + 1, last_index, row, tile_type, n, inserted)

\* variant: the tiles that do not fit in the staging row are dropped
insert_tiles_in_column_no_overflow(G, tile_type, drawed_tiles, column_choice, p) ==
    IF column_choice = 5
    THEN insert_tiles_in_penalty_column(G, drawed_tiles, p)
    ELSE LET rows == rows_of(G, p)
             r    == ColumnLoop(0, column_choice, rows[column_choice],
                                tile_type, drawed_tiles, 0)
         IN  [set_rows(G, p, [rows EXCEPT ![column_choice] = r.row])
                 EXCEPT !.inserted_tile_in_column_for_action = r.inserted]

insert_tiles_in_column(G, tile_type, drawed_tiles, column_choice, p) ==
    IF column_choice = 5
    THEN insert_tiles_in_penalty_column(G, drawed_tiles, p)
    ELSE LET rows == rows_of(G, p)
             r    == ColumnLoop(0, column_choice, rows[column_choice],
                                tile_type, drawed_tiles, 0)
             G1   == [set_rows(G, p, [rows EXCEPT ![column_choice] = r.row])
                        EXCEPT !.inserted_tile_in_column_for_action =
                                   r.inserted]
         IN  insert_tiles_in_penalty_column(G1, r.n, p)

(***************************************************************************)
(* play_turn: the game after the call and the boolean returned.            *)
(***************************************************************************)
\* variant: the first-player token goes to the other player's penalty track
play_turn_token_to_opponent(G, p, pit_choice, tile_type, column_choice) ==
    LET G0 == [G EXCEPT !.penality_for_action = 0]
    IN  IF valid_move(G0, p, pit_choice, tile_type, column_choice)
        THEN LET t  == take_tile_from_pit(G0, pit_choice, tile_type, p)
                 G1 == t.g
                 G2 == IF pit_choice = 5 /\ G1.new_first_player
                       THEN insert_tiles_in_penalty_column(
                              [G1 EXCEPT !.initial_player = p,
                                         !.new_first_player = FALSE],
                              1, IF p = "P1" THEN "P2" ELSE "P1")
                       ELSE G1
                 G3 == IF column_choice # 5
                       THEN insert_tiles_in_column(G2, tile_type,
                              t.drawed_tiles, column_choice, p)
                       ELSE insert_tiles_in_penalty_column(G2,
                              t.drawed_tiles, p)
             IN  [g |-> [G3 EXCEPT !.player_turn =
                            IF G3.player_turn = "P1" THEN "P2" ELSE "P1"],
                  ok |-> TRUE]
        ELSE [g |-> G0, ok |-> FALSE]

\* variant: every draft out of the centre takes a token
play_turn_token_every_center(G, p, pit_choice, tile_type, column_choice) ==
    LET G0 == [G EXCEPT !.penality_for_action = 0]
    IN  IF valid_move(G0, p, pit_choice, tile_type, column_choice)
        THEN LET t  == take_tile_from_pit(G0, pit_choice, tile_type, p)
                 G1 == t.g
                 G2 == IF pit_choice = 5
                       THEN insert_tiles_in_penalty_column(
                              [G1 EXCEPT !.initial_player = p,
                                         !.new_first_player = FALSE],
                              1, p)
                       ELSE G1
                 G3 == IF column_choice # 5
                       THEN insert_tiles_in_column(G2, tile_type,
                              t.drawed_tiles, column_choice, p)
                       ELSE insert_tiles_in_penalty_column(G2,
                              t.drawed_tiles, p)
             IN  [g |-> [G3 EXCEPT !.player_turn =
                            IF G3.player_turn = "P1" THEN "P2" ELSE "P1"],
                  ok |-> TRUE]
        ELSE [g |-> G0, ok |-> FALSE]

\* variant: the turn passes whether or not the move was valid
play_turn_always_passes(G, p, pit_choice, tile_type, column_choice) ==
    LET G0 == [G EXCEPT !.penality_for_action = 0]
        G5 == IF valid_move(G0, p, pit_choice, tile_type, column_choice)
              THEN LET t  == take_tile_from_pit(G0, pit_choice, tile_type, p)
                       G1 == t.g
                       G2 == IF pit_choice = 5 /\ G1.new_first_player
                             THEN insert_tiles_in_penalty_column(
                                    [G1 EXCEPT !.initial_player = p,
                                               !.new_first_player = FALSE],
                                    1, p)
                             ELSE G1
                   IN  IF column_choice # 5
                       THEN insert_tiles_in_column(G2, tile_type,
                              t.drawed_tiles, column_choice, p)
                       ELSE insert_tiles_in_penalty_column(G2,
                              t.drawed_tiles, p)
              ELSE G0
    IN  [g |-> [G5 EXCEPT !.player_turn =
                   IF G5.player_turn = "P1" THEN "P2" ELSE "P1"],
         ok |-> valid_move(G0, p, pit_choice, tile_type, column_choice)]

play_turn(G, p, pit_choice, tile_type, column_choice) ==
    LET G0 == [G EXCEPT !.penality_for_action = 0]
    IN  IF valid_move(G0, p, pit_choice, tile_type, column_choice)
        THEN LET t  == take_tile_from_pit(G0, pit_choice, tile_type, p)
                 G1 == t.g
                 G2 == IF pit_choice = 5 /\ G1.new_first_player
                       THEN insert_tiles_in_penalty_column(
                              [G1 EXCEPT !.initial_player = p,
                                         !.new_first_player = FALSE], 1, p)
                       ELSE G1
                 G3 == IF column_choice # 5
                       THEN insert_tiles_in_column(G2, tile_type,
                              t.drawed_tiles, column_choice, p)
                       ELSE insert_tiles_in_penalty_column(G2,
                              t.drawed_tiles, p)
                 G4 == [G3 EXCEPT !.player_turn =
                          IF G3.player_turn = "P1" THEN "P2" ELSE "P1"]
             IN  [g |-> G4, ok |-> TRUE]
        ELSE [g |-> G0, ok |-> FALSE]

(***************************************************************************)
(* clear_row                                                               *)
(***************************************************************************)
clear_row(G, index_row, p) ==
    LET rows == rows_of(G, p)
    IN  set_rows(G, p, [rows EXCEPT ![index_row] = [i \in 0..index_row |-> 0]])

(***************************************************************************)
(* compute_row_point and compute_column_point: the scan of one wall line.  *)
(* Before the target index an empty cell resets the run, from the target   *)
(* index on an empty cell ends the scan.                                   *)
(***************************************************************************)
RECURSIVE RowPointLoop(_, _, _, _)
RowPointLoop(i, line, index_column, score) ==
    IF i > 4 THEN score
    ELSE IF i < index_column
         THEN IF line[i] # 0
              THEN RowPointLoop(i + 1, line, index_column, score + 1)
              ELSE RowPointLoop(i + 1, line, index_column, 0)
         ELSE IF line[i] # 0
              THEN RowPointLoop(i + 1, line, index_column, score + 1)
              ELSE score

\* variant: an empty cell before the target index does not reset the count
compute_row_point_no_reset(G, index_row, index_column, p) ==
    LET line == board_of(G, p)[index_row]
    IN  Cardinality({i \in 0..4 : i < index_column /\ line[i] # 0})
          + Cardinality({j \in 0..4 : /\ j >= index_column
                                      /\ \A i \in index_column..j : line[i] # 0})
          - 1

compute_row_point(G, index_row, index_column, p) ==
    RowPointLoop(0, board_of(G, p)[index_row], index_column, 0) - 1

RECURSIVE ColumnPointLoop(_, _, _, _, _)
ColumnPointLoop(i, scoreboard, index_row, index_column, point) ==
    IF i > 4 THEN point
    ELSE IF i < index_row
         THEN IF scoreboard[i][index_column] # 0
              THEN ColumnPointLoop(i + 1, scoreboard, index_row,
                                   index_column, point + 1)
              ELSE ColumnPointLoop(i + 1, scoreboard, index_row,
                                   index_column, 0)
         ELSE IF scoreboard[i][index_column] # 0
              THEN ColumnPointLoop(i + 1, scoreboard, index_row,
                                   index_column, point + 1)
              ELSE point

compute_column_point(G, index_row, index_column, p) ==
    ColumnPointLoop(0, board_of(G, p), index_row, index_column, 0) - 1

(***************************************************************************)
(* add_tile_to_scoreboard: the game after the call and the points          *)
(* returned.  `tile` is the staging-row value, colour+1.                   *)
(***************************************************************************)
\* variant: the column is the colour, whatever the row
add_tile_to_scoreboard_unshifted(G, tile, p, index_row) ==
    LET index_column == (tile - 1) % 5
        scoreboard   == board_of(G, p)
        G1 == set_board(G, p,
                 [scoreboard EXCEPT ![index_row][index_column] = 1])
        score_row    == compute_row_point(G1, index_row, index_column, p)
        score_column == compute_column_point(G1, index_row, index_column, p)
    IN  [g |-> G1, points |-> 1 + score_row + score_column]

add_tile_to_scoreboard(G, tile, p, index_row) ==
    LET index_column == (tile - 1 + index_row) % 5
        scoreboard   == board_of(G, p)
        G1 == set_board(G, p,
                 [scoreboard EXCEPT ![index_row][index_column] = 1])
        score_row    == compute_row_point(G1, index_row, index_column, p)
        score_column == compute_column_point(G1, index_row, index_column, p)
    IN  [g |-> G1, points |-> 1 + score_row + score_column]

(***************************************************************************)
(* update_score                                                            *)
(***************************************************************************)
\* variant: the sum is stored as it is
update_score_unclamped(G, p, points) ==
    IF p = "P1"
    THEN [G EXCEPT !.p1_score = G.p1_score + points]
    ELSE [G EXCEPT !.p2_score = G.p2_score + points]

update_score(G, p, points) ==
    IF p = "P1"
    THEN IF G.p1_score + points > 0
         THEN [G EXCEPT !.p1_score = G.p1_score + points]
         ELSE [G EXCEPT !.p1_score = 0]
    ELSE IF G.p2_score + points > 0
         THEN [G EXCEPT !.p2_score = G.p2_score + points]
         ELSE [G EXCEPT !.p2_score = 0]

(***************************************************************************)
(* calculate_penality                                                      *)
(***************************************************************************)
PenalityTier(i) == IF i < 2 THEN 1 ELSE IF i < 5 THEN 2 ELSE 3

RECURSIVE PenalityLoop(_, _, _)
PenalityLoop(i, penality_row, penality) ==
    IF i > 6 THEN penality
    ELSE IF penality_row[i] # 0
         THEN PenalityLoop(i + 1, penality_row, penality - PenalityTier(i))
         ELSE PenalityLoop(i + 1, penality_row, penality)

calculate_penality(G, p) ==
    update_score(G, p, PenalityLoop(0, penalty_row_of(G, p), 0))

(***************************************************************************)
(* calculate_score: rows 0..4 in order, then the penalty.                  *)
(***************************************************************************)
completed_row(row) ==
    \A i \in DOMAIN row : ~(row[i] # row[0] \/ row[i] = 0)

RECURSIVE ScoreLoop(_, _, _)
ScoreLoop(G, p, index_row) ==
    IF index_row > 4 THEN G
    ELSE LET row == rows_of(G, p)[index_row]
         IN  IF completed_row(row)
             THEN LET G1 == clear_row(G, index_row, p)
                      a  == add_tile_to_scoreboard(G1, row[0], p, index_row)
                  IN  ScoreLoop(update_score(a.g, p, a.points), p,
                                index_row + 1)
             ELSE ScoreLoop(G, p, index_row + 1)

\* variant: the staging rows are scored from row 4 up to row 0
RECURSIVE ScoreLoopDescending(_, _, _)
ScoreLoopDescending(G, p, index_row) ==
    IF index_row < 0 THEN G
    ELSE LET row == rows_of(G, p)[index_row]
         IN  IF completed_row(row)
             THEN LET G1 == clear_row(G, index_row, p)
                      a  == add_tile_to_scoreboard(G1, row[0], p, index_row)
                  IN  ScoreLoopDescending(update_score(a.g, p, a.points), p,
                                          index_row - 1)
             ELSE ScoreLoopDescending(G, p, index_row - 1)

calculate_score_descending(G, p) ==
    calculate_penality(ScoreLoopDescending(G, p, 4), p)

\* variant: the penalty is charged before the completed rows are scored
calculate_score_penalty_first(G, p) == ScoreLoop(calculate_penality(G, p), p, 0)

calculate_score(G, p) == calculate_penality(ScoreLoop(G, p, 0), p)

(***************************************************************************)
(* is_turn_done, is_game_done                                              *)
(***************************************************************************)
\* variant: only the five factories are looked at
is_turn_done_factories(G) ==
    IF \E pit \in 0..4 : \E tile_type \in Colors :
           G.drawing_pit[pit][tile_type] # 0
    THEN [G EXCEPT !.is_done_phase = FALSE]
    ELSE [G EXCEPT !.is_done_phase = TRUE]

is_turn_done(G) ==
    IF \E pit \in Pits : \E tile_type \in Colors :
           G.drawing_pit[pit][tile_type] # 0
    THEN [G EXCEPT !.is_done_phase = FALSE]
    ELSE [G EXCEPT !.is_done_phase = TRUE]

RECURSIVE SumLine(_, _)
SumLine(line, i) == IF i > 4 THEN 0 ELSE line[i] + SumLine(line, i + 1)

HasCompletedRow(scoreboard) ==
    \E r \in RowIdx : SumLine(scoreboard[r], 0) = 5

is_game_done(G) ==
    LET G1 == is_turn_done(G)
    IN  IF G1.is_done_phase
        THEN IF HasCompletedRow(G1.board_p1) THEN [G1 EXCEPT !.gameover = TRUE]
             ELSE IF HasCompletedRow(G1.board_p2)
                  THEN [G1 EXCEPT !.gameover = TRUE]
                  ELSE [G1 EXCEPT !.gameover = FALSE]
        ELSE G1

(***************************************************************************)
(* compute_final_points and its three nested functions.                    *)
(***************************************************************************)
row_completed_score(scoreboard) ==
    Cardinality({r \in RowIdx :
        Cardinality({c \in RowIdx : scoreboard[r][c] = 1}) = 5}) * 2

RECURSIVE SumColumn(_, _, _)
SumColumn(scoreboard, c, r) ==
    IF r > 4 THEN 0 ELSE scoreboard[r][c] + SumColumn(scoreboard, c, r + 1)

column_completed_score(scoreboard) ==
    Cardinality({c \in RowIdx : SumColumn(scoreboard, c, 0) = 5}) * 5

tile_completed_score(scoreboard) ==
    Cardinality({k \in 0..4 :
        Cardinality({ij \in RowIdx \X RowIdx :
            scoreboard[ij[1]][ij[2]] = 1 /\ (ij[1] + ij[2]) % 5 = k}) = 5}) * 7

final_points(scoreboard) ==
    row_completed_score(scoreboard) + column_completed_score(scoreboard)
        + tile_completed_score(scoreboard)

compute_final_points(G) ==
    [G EXCEPT !.p1_score = G.p1_score + final_points(G.board_p1),
              !.p2_score = G.p2_score + final_points(G.board_p2)]

(***************************************************************************)
(* action_analisys: the two projected values and the completion flag that  *)
(* step reads.  compute_expected_row_points never sets its flag, so an     *)
(* empty cell leaves the count as it is.                                   *)
(***************************************************************************)
RECURSIVE ExpectedRowLoop(_, _, _, _)
ExpectedRowLoop(i, row_choice, index_of_inserted_element, expected) ==
    IF i > 4 THEN expected
    ELSE IF i = index_of_inserted_element
         THEN ExpectedRowLoop(i + 1, row_choice, index_of_inserted_element,
                              expected + 1)
         ELSE IF row_choice[i] = 1
              THEN ExpectedRowLoop(i + 1, row_choice,
                                   index_of_inserted_element, expected + 1)
              ELSE ExpectedRowLoop(i + 1, row_choice,
                                   index_of_inserted_element, expected)

compute_expected_row_points(row_array, column_choice, tile_type, board) ==
    ExpectedRowLoop(0, board[column_choice],
                    (tile_type + column_choice) % 5, 0)

\* the inner "for tile in row_array[i]": the count after it and whether the
\* function returned from inside it
RECURSIVE ExpectedTileLoop(_, _, _, _)
ExpectedTileLoop(j, row, flag, expected) ==
    IF j \notin DOMAIN row THEN [expected |-> expected, returned |-> FALSE]
    ELSE IF row[j] = 0
         THEN IF ~flag THEN ExpectedTileLoop(j + 1, row, flag, 0)
              ELSE [expected |-> expected, returned |-> TRUE]
         ELSE ExpectedTileLoop(j + 1, row, flag, expected + 1)

RECURSIVE ExpectedColumnLoop(_, _, _, _, _, _, _)
ExpectedColumnLoop(i, row_array, column_choice, tile_type, board, flag, expected) ==
    IF i > 4 THEN expected
    ELSE IF i = column_choice
         THEN ExpectedColumnLoop(i + 1, row_array, column_choice, tile_type,
                                 board, TRUE, expected + 1)
         ELSE IF board[i][tile_type] # 0
              THEN ExpectedColumnLoop(i + 1, row_array, column_choice,
                                      tile_type, board, flag, expected + 1)
              ELSE LET t == ExpectedTileLoop(0, row_array[i], flag, expected)
                   IN  IF t.returned THEN t.expected
                       ELSE ExpectedColumnLoop(i + 1, row_array,
                              column_choice, tile_type, board, flag,
                              t.expected)

compute_expected_column_points(row_array, column_choice, tile_type, board) ==
    ExpectedColumnLoop(0, row_array, column_choice, tile_type, board,
                       FALSE, 0)

action_analisys(G, p, tile_type, column_choice) ==
    LET board     == board_of(G, p)
        row_array == rows_of(G, p)
    IN  IF column_choice = 5
        THEN [expected_row_points |-> 0, expected_column_point |-> 0,
              column_completed |-> 0]
        ELSE LET count_tiles_in_column ==
                     Cardinality({i \in DOMAIN row_array[column_choice] :
                         row_array[column_choice][i] = tile_type + 1})
                 full == count_tiles_in_column = column_choice + 1
             IN  [expected_row_points |->
                      IF full
                      THEN compute_expected_row_points(row_array,
                               column_choice, tile_type, board)
                      ELSE 0,
                  expected_column_point |->
                      IF full
                      THEN compute_expected_column_points(row_array,
                               column_choice, tile_type, board)
                      ELSE 0,
                  column_completed |-> IF full THEN 1 ELSE 0]

(***************************************************************************)
(* The action codec.  int(x / y) of two non-negative integers is x \div y. *)
(***************************************************************************)
\* variant: the colour is computed without the reduction modulo 30
from_action_to_tuple_action_no_mod(action) ==
    IF action < 6 THEN <<action, 0, 0>>
    ELSE IF action < 30 THEN <<action % 6, action \div 6, 0>>
    ELSE <<action % 6, action \div 6, action \div (6 * 5)>>

from_action_to_tuple_action(action) ==
    IF action < 6 THEN <<action, 0, 0>>
    ELSE IF action < 30 THEN <<action % 6, action \div 6, 0>>
    ELSE <<action % 6, (action % (6 * 5)) \div 6, action \div (6 * 5)>>

from_tuple_action_to_action(action_pit_choice, action_tile_type, action_column_choice) ==
    action_pit_choice + action_tile_type * 6 + action_column_choice * 6 * 5

(***************************************************************************)
(* valid_actions, and the wrapper: to_play, have_winner, legal_actions.    *)
(***************************************************************************)
valid_actions(G, p) ==
    {ijk \in Pits \X Colors \X Targets :
        valid_move(G, p, ijk[1], ijk[2], ijk[3])}

to_play(G) == IF G.player_turn = "P1" THEN 0 ELSE 1

have_winner(G) == G.is_done_phase

\* variant: the moves of P1, whoever is to play
legal_actions_of_p1(G, pl) ==
    {from_tuple_action_to_action(elem[1], elem[2], elem[3]) :
        elem \in valid_actions(G, "P1")}

legal_actions(G, pl) ==
    {from_tuple_action_to_action(elem[1], elem[2], elem[3]) :
        elem \in valid_actions(G, IF pl = 0 THEN "P1" ELSE "P2")}

\* Azul.__init__ and Azul.reset compare the bound method game.play_turn
\* with "P1": the comparison is false, so the cached player is 1
InitialPlayer == IF FALSE THEN 0 ELSE 1

(***************************************************************************)
(* Azul.step: the game after the call, the reward and the done flag        *)
(* returned, and (for the history) what play_turn returned.                *)
(***************************************************************************)
step(G, action) ==
    LET t  == from_action_to_tuple_action(action)
        p  == G.player_turn
        pt == play_turn(G, p, t[1], t[2], t[3])
        an == action_analisys(pt.g, p, t[2], t[3])
        G1 == is_game_done(is_turn_done(pt.g))
        G2 == IF G1.is_done_phase
              THEN LET G3 == calculate_score(calculate_score(G1, "P1"), "P2")
                   IN  IF G3.gameover THEN compute_final_points(G3) ELSE G3
              ELSE G1
    IN  [g |-> G2,
         ok |-> pt.ok,
         reward |-> G2.inserted_tile_in_column_for_action
                      + an.expected_row_points + an.expected_column_point
                      - G2.penality_for_action,
         done |-> have_winner(G2)]

(***************************************************************************)
(* Azul.step for an id outside 0..179.  The decoder hands a negative id    *)
(* on as the pit index and an id of 180 or more yields a column choice of  *)
(* 6 or more.  Python indexes a list or array of length n with -n..-1      *)
(* from the end and raises IndexError for any other index outside 0..n-1;  *)
(* the exception leaves step at once.  The tile type is always in 0..4 and *)
(* a negative id always has column choice 0.                               *)
(***************************************************************************)
InRange(i, n) == -n <= i /\ i < n
PyIndex(i, n) == IF i < 0 THEN i + n ELSE i

\* "True", "False" as returned, or "IndexError" as raised
valid_move_py(G, p, pit_choice, tile_type, column_choice) ==
    IF ~InRange(pit_choice, 6) THEN "IndexError"
    ELSE IF G.drawing_pit[PyIndex(pit_choice, 6)][tile_type] = 0 THEN "False"
    ELSE IF column_choice # 5 /\ ~InRange(column_choice, 5) THEN "IndexError"
    ELSE IF valid_move(G, p, PyIndex(pit_choice, 6), tile_type, column_choice)
         THEN "True" ELSE "False"

\* play_turn: the tests "pit_choice == 5" and "pit_choice != 5" see the
\* index as given, so pit -1 (the centre) takes no token; its loop in
\* take_tile_from_pit moves the centre onto itself
play_turn_py(G, p, pit_choice, tile_type, column_choice) ==
    LET G0 == [G EXCEPT !.penality_for_action = 0]
        v  == valid_move_py(G0, p, pit_choice, tile_type, column_choice)
    IN  IF v = "IndexError" THEN [g |-> G0, ok |-> FALSE, raised |-> TRUE]
        ELSE IF v = "False" THEN [g |-> G0, ok |-> FALSE, raised |-> FALSE]
        ELSE LET t  == take_tile_from_pit(G0, PyIndex(pit_choice, 6),
                                          tile_type, p)
                 G1 == t.g
                 G2 == IF pit_choice = 5 /\ G1.new_first_player
                       THEN insert_tiles_in_penalty_column(
                              [G1 EXCEPT !.initial_player = p,
                                         !.new_first_player = FALSE], 1, p)
                       ELSE G1
                 G3 == IF column_choice # 5
                       THEN insert_tiles_in_column(G2, tile_type,
                              t.drawed_tiles, column_choice, p)
                       ELSE insert_tiles_in_penalty_column(G2,
                              t.drawed_tiles, p)
                 G4 == [G3 EXCEPT !.player_turn =
                          IF G3.player_turn = "P1" THEN "P2" ELSE "P1"]
             IN  [g |-> G4, ok |-> TRUE, raised |-> FALSE]

\* step: action_analisys indexes the staging rows with the column choice
step_py(G, action) ==
    LET t  == from_action_to_tuple_action(action)
        p  == G.player_turn
        pt == play_turn_py(G, p, t[1], t[2], t[3])
    IN  IF pt.raised \/ (t[3] # 5 /\ ~InRange(t[3], 5))
        THEN [g |-> pt.g, ok |-> FALSE, raised |-> TRUE, reward |-> 0,
              done |-> FALSE]
        ELSE LET an == action_analisys(pt.g, p, t[2], t[3])
                 G1 == is_game_done(is_turn_done(pt.g))
                 G2 == IF G1.is_done_phase
                       THEN LET G3 == calculate_score(
                                        calculate_score(G1, "P1"), "P2")
                            IN  IF G3.gameover THEN compute_final_points(G3)
                                ELSE G3
                       ELSE G1
             IN  [g |-> G2, ok |-> pt.ok, raised |-> FALSE,
                  reward |-> G2.inserted_tile_in_column_for_action
                               + an.expected_row_points
                               + an.expected_column_point
                               - G2.penality_for_action,
                  done |-> have_winner(G2)]

(***************************************************************************)
(* What the exploration supplies.                                          *)
(*                                                                         *)
(* The 20 values np.random.randint returns while the factories are filled  *)
(* are given as draws[i][j], the j-th draw of factory i.  Factory 0 gets   *)
(* 4 - mixed tiles of colour c and `mixed` tiles of colour d; factories    *)
(* 1..4 get four tiles of one colour each, alternately c and d.            *)
(***************************************************************************)
Draws(c, d, mixed) ==
    [i \in 0..4 |-> [j \in 0..3 |->
        IF i = 0 THEN (IF j < 4 - mixed THEN c ELSE d)
        ELSE IF i % 2 = 0 THEN d ELSE c]]

\* Spec: colours 0 and 1, one fill for each number 1..MaxMixed of colour-1
\* tiles in factory 0
Fills == {Draws(0, 1, m) : m \in 1..MaxMixed}

\* SpecRounds: round k is filled with colour c = (k-1) mod 5; in the first
\* rounds the last two draws of factory 0 are the colours c+1 and c+2
RoundDraws(k) ==
    [i \in 0..4 |-> [j \in 0..3 |->
        IF i = 0 /\ j >= 2 /\ k <= MaxMixedRounds
        THEN (k + j - 2) % 5 ELSE (k - 1) % 5]]

\* the action ids submitted to step.  Spec: every pit, the two colours in
\* play, the staging rows 0, 3 and 4 and the penalty row.  SpecRounds: every
\* pit, every colour, staging row 0 and the penalty row.
PlayedTargets == {0, 3, 4, 5}
RoundsTargets == {0, 5}

PlayedIds ==
    {from_tuple_action_to_action(pit, c, t) :
        pit \in Pits, c \in 0..1, t \in PlayedTargets}

RoundsIds ==
    {from_tuple_action_to_action(pit, c, t) :
        pit \in Pits, c \in Colors, t \in RoundsTargets}

\* the factories are drafted in index order: an id names the centre or the
\* first factory that still holds tiles
InOrder(G, pit) ==
    \/ pit = 5
    \/ /\ G.drawing_pit[pit] # ZeroPit
       /\ \A i \in 0..(pit - 1) : G.drawing_pit[i] = ZeroPit

\* `last` of a call other than step, and the triple recorded for a step
\* that play_turn rejected
NoMove == <<>>
NoReturn(op) == [op |-> op, ok |-> FALSE, reward |-> 0, done |-> FALSE,
                 move |-> NoMove]

NoCodec == [stage |-> "idle", triple |-> <<0, 0, 0>>, id |-> 0,
            back |-> <<0, 0, 0>>]

(***************************************************************************)
(* Azul(): the wrapper builds the game; its cached player is 1.            *)
(***************************************************************************)
Azul(draws) ==
    /\ game = Azul_game(draws)
    /\ player = InitialPlayer
    /\ last = NoReturn("new")
    /\ rounds = 1
    /\ done_steps = 0
    /\ first_center = ""
    /\ codec = NoCodec

Init == \E draws \in Fills : Azul(draws)

(***************************************************************************)
(* Azul.step                                                               *)
(***************************************************************************)
Step(action) ==
    /\ rounds <= MaxRounds
    /\ game.is_done_phase =>
           \/ done_steps < MaxDoneSteps
           \/ game.gameover /\ done_steps < MaxDoneSteps + MaxOverSteps
    /\ InOrder(game, from_action_to_tuple_action(action)[1])
    /\ \E s \in {step(game, action)} :
           /\ game' = s.g
           /\ player' = to_play(s.g)
           /\ last' = [op |-> "step", ok |-> s.ok, reward |-> s.reward,
                       done |-> s.done,
                       move |-> IF s.ok
                                THEN from_action_to_tuple_action(action)
                                ELSE NoMove]
           /\ first_center' =
                  IF s.ok /\ from_action_to_tuple_action(action)[1] = 5
                          /\ first_center = ""
                  THEN game.player_turn ELSE first_center
    /\ done_steps' = IF game.is_done_phase THEN done_steps + 1 ELSE 0
    /\ UNCHANGED <<rounds, codec>>

(***************************************************************************)
(* Azul.reset: a new game object, whatever the old one held.               *)
(***************************************************************************)
Reset(draws) ==
    /\ game' = Azul_game(draws)
    /\ player' = InitialPlayer
    /\ last' = NoReturn("reset")
    /\ rounds' = 1
    /\ done_steps' = 0
    /\ first_center' = ""
    /\ UNCHANGED codec

(***************************************************************************)
(* Azul_game.create_drawing_pit called on the running game when a round    *)
(* is complete: the next round.  The wrapper's cached player is not        *)
(* touched by it.                                                          *)
(***************************************************************************)
CreateDrawingPit(draws) ==
    /\ game.is_done_phase
    /\ rounds < MaxRounds \/ (rounds = MaxRounds /\ game.gameover)
    /\ game' = create_drawing_pit(game, draws)
    /\ last' = NoReturn("create_drawing_pit")
    /\ rounds' = rounds + 1
    /\ done_steps' = 0
    /\ first_center' = ""
    /\ UNCHANGED <<player, codec>>

(***************************************************************************)
(* Spec: the wrapper as MuZero drives it, step and reset.                  *)
(***************************************************************************)
Next ==
    \/ \E action \in PlayedIds : Step(action)
    \/ \E draws \in Fills : Reset(draws)

Spec == Init /\ [][Next]_vars

(***************************************************************************)
(* SpecRounds: one game played round after round.                          *)
(***************************************************************************)
InitRounds == Azul(RoundDraws(1))

NextRounds ==
    \/ \E action \in RoundsIds : Step(action)
    \/ CreateDrawingPit(RoundDraws(rounds + 1))

SpecRounds == InitRounds /\ [][NextRounds]_vars

(***************************************************************************)
(* SpecCodec: the action codec applied to every valid triple.              *)
(***************************************************************************)
InitCodec ==
    /\ game = Azul_game(RoundDraws(1))
    /\ player = InitialPlayer
    /\ last = NoReturn("new")
    /\ rounds = 1
    /\ done_steps = 0
    /\ first_center = ""
    /\ \E pit \in Pits : \E c \in Colors : \E t \in Targets :
           codec = [stage |-> "triple", triple |-> <<pit, c, t>>, id |-> 0,
                    back |-> <<0, 0, 0>>]

Encode ==
    /\ codec.stage = "triple"
    /\ codec' = [codec EXCEPT
                   !.stage = "id",
                   !.id = from_tuple_action_to_action(codec.triple[1],
                              codec.triple[2], codec.triple[3])]
    /\ UNCHANGED <<game, player, last, rounds, done_steps, first_center>>

Decode ==
    /\ codec.stage = "id"
    /\ codec' = [codec EXCEPT
                   !.stage = "back",
                   !.back = from_action_to_tuple_action(codec.id)]
    /\ UNCHANGED <<game, player, last, rounds, done_steps, first_center>>

NextCodec == Encode \/ Decode

SpecCodec == InitCodec /\ [][NextCodec]_vars

(***************************************************************************)
(* SpecScoring: the tail of Azul.step in a round-complete state, and the   *)
(* steps submitted after the game is over, from walls and staging rows of  *)
(* every shape.  play_turn puts tiles on the     *)
(* walls one cell at a time over many rounds, so the walls are given here  *)
(* as unions of lines: rows, columns, the five cells one colour can reach  *)
(* and the five cells with one value of (row + column) mod 5.  A staging   *)
(* row is empty, full of one colour, or holds one tile of colour 0, and    *)
(* (as valid_move guarantees) never holds a colour whose wall cell in that *)
(* row is set.                                                             *)
(***************************************************************************)
MaxWallLines == 2
MaxStagedRows == 2

WallLine(kind, k) ==
    IF kind = 0 THEN {<<k, c>> : c \in RowIdx}
    ELSE IF kind = 1 THEN {<<r, k>> : r \in RowIdx}
    ELSE IF kind = 2 THEN {<<r, (k + r) % 5>> : r \in RowIdx}
    ELSE {<<r, (k + 5 - r) % 5>> : r \in RowIdx}

WallLines == {WallLine(kind, k) : kind \in 0..3, k \in RowIdx} \cup {{}}

WallOf(cells) ==
    [r \in RowIdx |-> [c \in RowIdx |-> IF <<r, c>> \in cells THEN 1 ELSE 0]]

ScoringWalls ==
    {WallOf(UNION {f[i] : i \in 1..MaxWallLines}) :
        f \in [1..MaxWallLines -> WallLines]}

\* f[r] = -1: row r empty; 0..4: full of that colour; 5: one tile of colour 0
StagedRows(f) ==
    [r \in RowIdx |-> [i \in 0..r |->
        IF f[r] \in Colors THEN f[r] + 1
        ELSE IF f[r] = 5 /\ i = 0 THEN 1 ELSE 0]]

ScoringRows ==
    {StagedRows(f) : f \in {h \in [RowIdx -> -1..5] :
        /\ Cardinality({r \in RowIdx : h[r] # -1}) <= MaxStagedRows
        /\ h[0] # 5}}

\* the game as is_turn_done and is_game_done leave it when the last tiles
\* of a round have been drafted
ScoringGame(p, wall, rows) ==
    LET G == Azul_game(RoundDraws(1))
    IN  set_rows(set_board(
            [G EXCEPT !.drawing_pit = [i \in Pits |-> ZeroPit],
                      !.is_done_phase = TRUE,
                      !.gameover = HasCompletedRow(wall)], p, wall), p, rows)

InitScoring ==
    /\ \E p \in Players : \E wall \in ScoringWalls : \E rows \in ScoringRows :
           /\ \A r \in RowIdx :
                  rows[r][0] # 0 => wall[r][(rows[r][0] - 1 + r) % 5] = 0
           /\ game = ScoringGame(p, wall, rows)
    /\ player = InitialPlayer
    /\ last = NoReturn("is_game_done")
    /\ rounds = 1
    /\ done_steps = 0
    /\ first_center = ""
    /\ codec = NoCodec

\* step: in a complete round both players are scored
CalculateScore ==
    /\ last.op = "is_game_done"
    /\ game.is_done_phase
    /\ game' = calculate_score(calculate_score(game, "P1"), "P2")
    /\ last' = NoReturn("calculate_score")
    /\ UNCHANGED <<player, rounds, done_steps, first_center, codec>>

\* step: the end-game bonus when gameover is set
ComputeFinalPoints ==
    /\ last.op = "calculate_score"
    /\ game.gameover
    /\ game' = compute_final_points(game)
    /\ last' = NoReturn("compute_final_points")
    /\ UNCHANGED <<player, rounds, done_steps, first_center, codec>>

\* the steps submitted once the game is over: a factory draft into a
\* staging row and a centre draft into the penalty row
OverIds ==
    {from_tuple_action_to_action(0, 0, 0), from_tuple_action_to_action(5, 4, 5)}

StepOver(action) ==
    /\ last.op \in {"compute_final_points", "step"}
    /\ Step(action)

NextScoring ==
    \/ CalculateScore
    \/ ComputeFinalPoints
    \/ \E action \in OverIds : StepOver(action)

SpecScoring == InitScoring /\ [][NextScoring]_vars

(***************************************************************************)
(* SpecLate: a game whose first round is played move by move as listed and  *)
(* leaves P1 with points, every way to play its second round, and the     *)
(* pools of a third round (filled like those of the first).  In            *)
(* round 1 every factory holds the colours 0, 1, 2, 3; P1 fills its        *)
(* staging rows 0, 1 and 3, P2 drafts into its penalty row.  In round 2    *)
(* every factory holds three tiles of colour 1 and one of colour 2.        *)
(***************************************************************************)
LateDraws1 == [i \in 0..4 |-> [j \in 0..3 |-> j]]
LateDraws2 == [i \in 0..4 |-> [j \in 0..3 |-> IF j < 3 THEN 1 ELSE 2]]

\* the triples (pit, colour, target) of round 1, P1 moving first
LateMoves ==
    << <<0, 0, 0>>, <<5, 1, 5>>, <<1, 0, 1>>, <<2, 0, 5>>, <<3, 0, 1>>,
       <<4, 0, 5>>, <<5, 1, 4>>, <<5, 2, 5>>, <<5, 3, 3>> >>

\* how many of the moves of round 1 have been made
LatePosition ==
    IF last.op = "new" THEN 0
    ELSE CHOOSE i \in 1..Len(LateMoves) : LateMoves[i] = last.move

InitLate == Azul(LateDraws1)

NextLate ==
    \/ /\ rounds = 1 /\ ~game.is_done_phase
       /\ \E m \in {LateMoves[LatePosition + 1]} :
              Step(from_tuple_action_to_action(m[1], m[2], m[3]))
    \/ /\ rounds <= 2
       /\ CreateDrawingPit(IF rounds = 1 THEN LateDraws2 ELSE LateDraws1)
    \/ \E action \in RoundsIds : rounds = 2 /\ Step(action)

SpecLate == InitLate /\ [][NextLate]_vars

(***************************************************************************)
(* SpecAnyId: the wrapper is also handed ids outside 0..179.               *)
(***************************************************************************)
OutOfRangeIds == {-7, -6, -1, 180, 185}

StepOutOfRange(action) ==
    /\ game.is_done_phase => done_steps < MaxDoneSteps
    /\ InRange(action, 6) => InOrder(game, PyIndex(action, 6))
    /\ \E s \in {step_py(game, action)} :
           /\ game' = s.g
           /\ player' = IF s.raised THEN player ELSE to_play(s.g)
           /\ last' = [op |-> "step", ok |-> s.ok, reward |-> s.reward,
                       done |-> s.done,
                       move |-> IF s.ok
                                THEN from_action_to_tuple_action(action)
                                ELSE NoMove,
                       id |-> action, raised |-> s.raised]
    /\ done_steps' = IF game.is_done_phase THEN done_steps + 1 ELSE 0
    /\ UNCHANGED <<rounds, first_center, codec>>

NextAnyId ==
    \/ \E action \in PlayedIds : Step(action)
    \/ \E action \in OutOfRangeIds : StepOutOfRange(action)

SpecAnyId == Init /\ [][NextAnyId]_vars

(***************************************************************************)
(*                              PROPERTIES                                 *)
(***************************************************************************)

\* what the properties read off a game record
PlayerName(pl) == IF pl = 0 THEN "P1" ELSE "P2"
Other(p) == IF p = "P1" THEN "P2" ELSE "P1"
Min(a, b) == IF a < b THEN a ELSE b
Max(a, b) == IF a > b THEN a ELSE b
Occupied(row) == Cardinality({i \in DOMAIN row : row[i] # 0})
RowEmpty(row) == \A i \in DOMAIN row : row[i] = 0
RowHolds(row, c) == \E i \in DOMAIN row : row[i] = c + 1
RowFullOf(row, c) == \A i \in DOMAIN row : row[i] = c + 1
PoolsEmpty(G) == \A pit \in Pits : \A c \in Colors : G.drawing_pit[pit][c] = 0
FullRow(scoreboard) ==
    \E r \in RowIdx : \A c \in RowIdx : scoreboard[r][c] = 1

\* the fields a rejected move must leave alone
SameGame(G, H) ==
    /\ G.drawing_pit = H.drawing_pit
    /\ G.rows_p1 = H.rows_p1 /\ G.rows_p2 = H.rows_p2
    /\ G.board_p1 = H.board_p1 /\ G.board_p2 = H.board_p2
    /\ G.penalty_row_p1 = H.penalty_row_p1
    /\ G.penalty_row_p2 = H.penalty_row_p2
    /\ G.p1_score = H.p1_score /\ G.p2_score = H.p2_score
    /\ G.player_turn = H.player_turn
    /\ G.initial_player = H.initial_player
    /\ G.new_first_player = H.new_first_player
    /\ G.is_done_phase = H.is_done_phase
    /\ G.gameover = H.gameover

\* C1: decoding the id of a valid triple (pool, color, target) gives the
\* triple back; the id is pool + color*6 + target*30 and lies in 0..179.
C1_RoundTrip ==
    /\ codec.stage \in {"id", "back"} =>
          /\ codec.id = codec.triple[1] + codec.triple[2] * 6
                          + codec.triple[3] * 30
          /\ codec.id \in 0..179
    /\ codec.stage = "back" => codec.back = codec.triple

C1_Witness ==
    codec.stage = "back" /\ codec.triple = <<4, 3, 2>> /\ codec.id = 82

C3_RejectedPlayTurn ==
    \A p \in Players : \A pit \in Pits : \A c \in Colors : \A t \in Targets :
        ~valid_move(game, p, pit, c, t) =>
            LET r == play_turn(game, p, pit, c, t)
            IN  ~r.ok /\ SameGame(r.g, game)

\* play_turn has just refused a move while tiles were on offer
C3_Witness ==
    /\ last.op = "step" /\ ~last.ok
    /\ ~PoolsEmpty(game)
    /\ \E pit \in Pits : \E c \in Colors : \E t \in 0..4 :
          /\ game.drawing_pit[pit][c] >= 1
          /\ ~valid_move(game, game.player_turn, pit, c, t)

\* C4: in every reachable state, drafting or round-complete, step called
\* with an id of 0..179 that is not legal for the active player leaves
\* pools, staging rows, walls, penalty tracks, scores, the active player
\* and the round and terminal flags as they were.
C4_IllegalStepNoOp ==
    \A action \in 0..179 :
        LET m == from_action_to_tuple_action(action)
        IN  ~valid_move(game, game.player_turn, m[1], m[2], m[3])
                => SameGame(step(game, action).g, game)

\* C5: legal_actions() is the set of encoded ids of the triples that are
\* legal for the player to_play() reports, after construction and reset
\* too, and step accepts every id of it and passes the turn.
C5_LegalActions ==
    /\ legal_actions(game, player)
         = {pit + c * 6 + t * 30 : <<pit, c, t>> \in
              {m \in Pits \X Colors \X Targets :
                  valid_move(game, PlayerName(to_play(game)),
                             m[1], m[2], m[3])}}
    /\ \A action \in legal_actions(game, player) :
          /\ step(game, action).ok
          /\ to_play(step(game, action).g) # to_play(game)

\* a wrapper just built or reset, whose cached player is not the one
\* to_play reports, and a later state where the two players' legal sets
\* differ
C5_Witness ==
    \/ /\ last.op = "reset"
       /\ player # to_play(game)
       /\ legal_actions(game, player) # {}
    \/ /\ last.op = "step" /\ last.ok
       /\ legal_actions(game, 0) # legal_actions(game, 1)
       /\ legal_actions(game, player) # {}

\* C6: step returns terminal = true only when some player's wall has a
\* fully set row at a round-complete transition; a step that only completes
\* a round returns terminal = false.
C6_TerminalOnlyAtGameEnd ==
    (last.op = "step" /\ last.done)
        => (FullRow(game.board_p1) \/ FullRow(game.board_p2))

\* C7: after every step, is_done_phase is true if and only if every one of
\* the six pools holds zero tiles of every colour.
C7_RoundCompleteIffPoolsEmpty ==
    last.op = "step" => (game.is_done_phase <=> PoolsEmpty(game))

\* the step that drafted the last tiles, out of the centre
C7_Witness ==
    /\ last.op = "step" /\ last.ok /\ last.move[1] = 5
    /\ game.is_done_phase /\ PoolsEmpty(game)

\* C8: at a round-complete transition game end is evaluated after the round
\* scoring: if either wall then has a row with all five cells set, the same
\* transition sets the terminal flag and adds the end-game bonus to both
\* scores, each from the player's own wall (a full row alone is worth 2).
C8_GameEndAfterScoring ==
    (/\ last.op = "step" /\ last.ok
     /\ game.is_done_phase /\ done_steps = 0
     /\ (FullRow(game.board_p1) \/ FullRow(game.board_p2)))
        => /\ game.gameover
           /\ game.p1_score >= final_points(game.board_p1)
           /\ game.p2_score >= final_points(game.board_p2)

\* the tiles a draft puts on the mover's penalty track, and the token
FreeSlots(G, p, t) ==
    IF t = 5 THEN 0
    ELSE Cardinality({i \in DOMAIN rows_of(G, p)[t] : rows_of(G, p)[t][i] = 0})
Overflow(G, p, m) ==
    G.drawing_pit[m[1]][m[2]]
        - Min(G.drawing_pit[m[1]][m[2]], FreeSlots(G, p, m[3]))
Token(m) == IF m[1] = 5 /\ first_center = "" THEN 1 ELSE 0

\* C9: in each round the first accepted move that drafts from the centre,
\* and no other move, puts one extra token on the mover's penalty track
\* (when a slot is free) besides the tiles the move drafts; so at most one
\* token is added per round.
C9_OneTokenPerRound ==
    [][(last'.op = "step" /\ last'.ok) =>
          LET p == game.player_turn
              m == last'.move
          IN  /\ Occupied(penalty_row_of(game', p))
                   = Min(7, Occupied(penalty_row_of(game, p))
                              + Overflow(game, p, m) + Token(m))
              /\ penalty_row_of(game', Other(p))
                   = penalty_row_of(game, Other(p))]_vars

\* in the second round, a draft out of the centre by the player who did not
\* make the round's first centre draft
C9_Witness ==
    /\ rounds = 2
    /\ last.op = "step" /\ last.ok /\ last.move[1] = 5
    /\ first_center = game.player_turn
    /\ Occupied(penalty_row_of(game, first_center)) >= 1

\* C10: when the pools of a new round are created after a round in which
\* someone drafted from the centre, the new round's active player is the
\* one who made the first centre draft of that round, whatever moves
\* followed it.
C10_StarterIsFirstCenterDrafter ==
    [][(last'.op = "create_drawing_pit" /\ first_center # "")
          => game'.player_turn = first_center]_vars

\* the cost of the tokens on a penalty track, and the wall cells set
PenaltyCharge(row) ==
    Cardinality({i \in 0..1 : row[i] # 0})
      + 2 * Cardinality({i \in 2..4 : row[i] # 0})
      + 3 * Cardinality({i \in 5..6 : row[i] # 0})
CellsSet(scoreboard) ==
    Cardinality({rc \in RowIdx \X RowIdx : scoreboard[rc[1]][rc[2]] = 1})

\* C11: both scores are non-negative integers in every reachable state, and
\* a scoring update that would take a score below zero leaves it at zero.
C11_ScoresNonNegative ==
    /\ game.p1_score \in Nat /\ game.p2_score \in Nat
    /\ \A p \in Players : \A points \in -14..0 :
          score_of(update_score(game, p, points), p)
            = IF score_of(game, p) + points < 0 THEN 0
              ELSE score_of(game, p) + points

\* a round has just been scored for a player who earned one point for a
\* wall tile and whose penalty was larger: the score is zero
C11_Witness ==
    /\ last.op = "step" /\ last.ok /\ game.is_done_phase
    /\ \E p \in Players :
          /\ CellsSet(board_of(game, p)) = 1
          /\ PenaltyCharge(penalty_row_of(game, p)) >= 2
          /\ score_of(game, p) = 0

\* C12: within one game a wall cell that is set is never cleared, by moves,
\* round scorings or new-round pool creations, and a cell (r, c) becomes set
\* only by the scoring of a completed staging row r holding colour
\* (c - r) mod 5: at a round scoring, putting the tile of a row r of colour
\* k on a wall sets the cell (r, (k + r) mod 5) and no other.
C12_WallOnlyGrows ==
    [][/\ \A p \in Players :
          \/ board_of(game', p) = board_of(game, p)
          \/ \A r \in RowIdx : \A c \in RowIdx :
            /\ board_of(game, p)[r][c] = 1 => board_of(game', p)[r][c] = 1
            /\ (board_of(game, p)[r][c] # 1 /\ board_of(game', p)[r][c] = 1)
                 => /\ last'.op = "step" /\ game'.is_done_phase
                    /\ LET m   == last'.move
                           mid == IF last'.ok
                                  THEN play_turn(game, game.player_turn,
                                                 m[1], m[2], m[3]).g
                                  ELSE game
                       IN  RowFullOf(rows_of(mid, p)[r], (c - r) % 5)
       /\ (last'.op = "step" /\ last'.ok /\ game'.is_done_phase) =>
            \A p \in Players : \A r \in RowIdx : \A k \in Colors :
              LET b == board_of(add_tile_to_scoreboard(game, k + 1, p, r).g, p)
              IN  b = [board_of(game, p) EXCEPT ![r][(k + r) % 5] = 1]
      ]_vars

\* a round after the first has just been scored: a cell set in an earlier
\* round is still there beside the cell this round set
C12_Witness ==
    /\ rounds >= 2
    /\ last.op = "step" /\ last.ok /\ game.is_done_phase
    /\ \E p \in Players : CellsSet(board_of(game, p)) >= 2

\* C13: in every reachable state, for each player and each staging row, all
\* non-empty slots of the row hold the same colour id.
C13_OneColourPerRow ==
    \A p \in Players : \A r \in RowIdx :
        \A i \in 0..r : \A j \in 0..r :
            (rows_of(game, p)[r][i] # 0 /\ rows_of(game, p)[r][j] # 0)
                => rows_of(game, p)[r][i] = rows_of(game, p)[r][j]

\* a step was refused while the player to move had a partly filled row and
\* a pool offered a colour the row does not hold
C13_Witness ==
    /\ last.op = "step" /\ ~last.ok
    /\ \E r \in 1..4 : \E c \in Colors : \E pit \in Pits :
          /\ Occupied(rows_of(game, game.player_turn)[r]) \in 1..r
          /\ ~RowHolds(rows_of(game, game.player_turn)[r], c)
          /\ game.drawing_pit[pit][c] >= 1
          /\ board_of(game, game.player_turn)[r][(c + r) % 5] # 1

\* the tiles in the pools, and the pieces counted by the conservation law
PoolTiles(G) ==
    LET n[k \in 0..30] ==
          IF k = 30 THEN 0 ELSE G.drawing_pit[k \div 5][k % 5] + n[k + 1]
    IN  n[0]
StagedTiles(G, p) ==
    Cardinality({ri \in RowIdx \X RowIdx :
        ri[2] <= ri[1] /\ rows_of(G, p)[ri[1]][ri[2]] # 0})
TotalTiles(G) ==
    PoolTiles(G)
      + StagedTiles(G, "P1") + StagedTiles(G, "P2")
      + Occupied(G.penalty_row_p1) + Occupied(G.penalty_row_p2)
      + CellsSet(G.board_p1) + CellsSet(G.board_p2)

\* C14 as stated: the number of tiles in the pools plus the occupied
\* staging slots, occupied penalty slots and set wall cells of both players
\* never increases across a move within a round, and the pools of a newly
\* created round hold exactly 20 tiles.
C14_TotalNeverIncreases ==
    [][/\ last'.op = "step" => TotalTiles(game') <= TotalTiles(game)
       /\ last'.op = "create_drawing_pit" => PoolTiles(game') = 20]_vars

\* C14 amended: that number increases across a move by at most one, and
\* only across the move that takes the first-player token (the round's
\* first accepted draft from the centre); across every other move it does
\* not increase, and the pools of a newly created round hold exactly 20
\* tiles.
C14_TotalGrowsOnlyByToken ==
    [][/\ last'.op = "step" =>
            TotalTiles(game') <= TotalTiles(game)
               + (IF last'.ok THEN Token(last'.move) ELSE 0)
       /\ last'.op = "create_drawing_pit" => PoolTiles(game') = 20]_vars

\* in the first round, after a draft from the centre, 21 pieces are counted
C14_Witness ==
    /\ rounds = 1
    /\ last.op = "step" /\ last.ok /\ last.move[1] = 5
    /\ TotalTiles(game) = 21


\* the end-game bonus as the colour wheel defines it: 2 per full wall row,
\* 5 per full wall column, 7 per colour k whose cells (r, (k + r) mod 5)
\* are all set
WheelBonus(scoreboard) ==
    2 * Cardinality({r \in RowIdx : \A c \in RowIdx : scoreboard[r][c] = 1})
      + 5 * Cardinality({c \in RowIdx :
                \A r \in RowIdx : scoreboard[r][c] = 1})
      + 7 * Cardinality({k \in Colors :
                \A r \in RowIdx : scoreboard[r][(k + r) % 5] = 1})

\* C15: for every wall, the end-game bonus added to a player's score is
\* 2 x (full wall rows) + 5 x (full wall columns) + 7 x (colours whose five
\* cells (r, (k + r) mod 5) are all set).
C15_FinalBonus ==
    [][last'.op = "compute_final_points" =>
          \A p \in Players :
              score_of(game', p)
                  = score_of(game, p) + WheelBonus(board_of(game, p))]_vars


\* the set cells contiguous with cell c of a line, c included
RunLength(line, c) ==
    Cardinality({j \in RowIdx :
        \A i \in RowIdx : (Min(j, c) <= i /\ i <= Max(j, c)) => line[i] = 1})

\* round scoring as the rules state it: rows r..4 in order on the wall as it
\* stands when each row is reached
RECURSIVE RoundScoring(_, _, _, _)
RoundScoring(wall, rows, score, r) ==
    IF r > 4 THEN [wall |-> wall, rows |-> rows, score |-> score]
    ELSE IF \E k \in Colors : RowFullOf(rows[r], k)
         THEN LET col  == (rows[r][0] - 1 + r) % 5
                  w    == [wall EXCEPT ![r][col] = 1]
                  gain == 1 + (RunLength(w[r], col) - 1)
                            + (RunLength([i \in RowIdx |-> w[i][col]], r) - 1)
              IN  RoundScoring(w, [rows EXCEPT ![r] = [i \in 0..r |-> 0]],
                               score + gain, r + 1)
         ELSE RoundScoring(wall, rows, score, r + 1)

\* C16: round scoring takes a player's staging rows 0..4 in order; a row
\* full of one colour is emptied, sets the wall cell (row, (colour + row)
\* mod 5) and earns 1 + row adjacency + column adjacency on the wall as it
\* then stands; a row that is not full stays as it is and sets no cell.
\* (The penalty track is charged after the rows.)
C16_RoundScoring ==
    [][last'.op = "calculate_score" =>
          \A p \in Players :
              LET ref == RoundScoring(board_of(game, p), rows_of(game, p),
                                      score_of(game, p), 0)
                  net == ref.score - PenaltyCharge(penalty_row_of(game, p))
              IN  /\ rows_of(game', p) = ref.rows
                  /\ board_of(game', p) = ref.wall
                  /\ score_of(game', p) = IF net > 0 THEN net ELSE 0]_vars

\* a scored row met set cells on both axes while another row, partly
\* filled, stayed in place
C16_Witness ==
    /\ last.op = "calculate_score"
    /\ \E p \in Players :
           /\ score_of(game, p) >= 4
           /\ score_of(game, p) < CellsSet(board_of(game, p))
           /\ \E r \in 1..4 : /\ rows_of(game, p)[r][0] = 1
                              /\ rows_of(game, p)[r][r] = 0


\* C17: an accepted move with target t in 0..4 that drafts n tiles into a
\* staging row with e empty slots fills the first min(n, e) empty slots of
\* that row with the colour and puts the other n - min(n, e) tiles on the
\* mover's penalty track; an accepted move with target 5 puts all n tiles on
\* the penalty track; no other staging row changes.
C17_DraftFillsRow ==
    [][(last'.op = "step" /\ last'.ok) =>
          LET p   == game.player_turn
              m   == last'.move
              t   == m[3]
              n   == game.drawing_pit[m[1]][m[2]]
              placed == Min(n, FreeSlots(game, p, t))
              mid == IF game'.is_done_phase
                     THEN play_turn(game, p, m[1], m[2], m[3]).g ELSE game'
              old == rows_of(game, p)
              new == rows_of(mid, p)
          IN  /\ n > 0
              /\ \A r \in RowIdx \ {t} : new[r] = old[r]
              /\ t # 5 =>
                   new[t] = [i \in 0..t |->
                       IF old[t][i] # 0 THEN old[t][i]
                       ELSE IF Cardinality({j \in 0..i : old[t][j] = 0})
                                  <= placed
                            THEN m[2] + 1 ELSE 0]
              /\ rows_of(mid, Other(p)) = rows_of(game, Other(p))
              /\ Occupied(penalty_row_of(mid, p))
                   = Min(7, Occupied(penalty_row_of(game, p)) + Token(m)
                              + (n - placed))]_vars

\* a draft into a partly filled staging row that filled some slots and sent
\* the rest of the tiles to the penalty track
C17_Witness ==
    /\ last.op = "step" /\ last.ok /\ last.move[3] \in 1..4
    /\ ~game.is_done_phase
    /\ game.inserted_tile_in_column_for_action \in 1..last.move[3]
    /\ game.penality_for_action >= 1
    /\ RowFullOf(rows_of(game, Other(game.player_turn))[last.move[3]],
                 last.move[2])


\* the occupied slots of a penalty track are its first slots
PrefixTrack(row) ==
    /\ \A i \in PenIdx : row[i] \in {0, 1}
    /\ \A i \in 1..6 : row[i] = 1 => row[i - 1] = 1

\* C18: putting n tiles on a penalty track with k occupied slots leaves
\* min(7, k + n) occupied slots, the occupied slots are always the first
\* slots of the track, and the tiles that find no slot are dropped: a mover
\* whose track is full keeps the same track and the same score.
C18_PenaltyTrack ==
    [][/\ \A p \in Players : PrefixTrack(penalty_row_of(game', p))
       /\ (last'.op = "step" /\ last'.ok) =>
            LET p   == game.player_turn
                m   == last'.move
                n   == game.drawing_pit[m[1]][m[2]]
                k   == Occupied(penalty_row_of(game, p))
                mid == IF game'.is_done_phase
                       THEN play_turn(game, p, m[1], m[2], m[3]).g ELSE game'
            IN  /\ \A j \in 0..n :
                     LET G == insert_tiles_in_penalty_column(game, j, p)
                     IN  /\ Occupied(penalty_row_of(G, p)) = Min(7, k + j)
                         /\ PrefixTrack(penalty_row_of(G, p))
                         /\ G.p1_score = game.p1_score
                         /\ G.p2_score = game.p2_score
                /\ k = 7 =>
                     /\ penalty_row_of(mid, p) = penalty_row_of(game, p)
                     /\ mid.p1_score = game.p1_score
                     /\ mid.p2_score = game.p2_score]_vars

\* a mover with points and a full track has drafted a factory into the
\* penalty row: none of the tiles found a slot
C18_Witness ==
    /\ last.op = "step" /\ last.ok
    /\ last.move[1] # 5 /\ last.move[3] = 5
    /\ ~game.is_done_phase
    /\ game.penality_for_action = 0
    /\ Occupied(penalty_row_of(game, Other(game.player_turn))) = 7
    /\ score_of(game, Other(game.player_turn)) > 0


\* the tiered cost of the penalty slots that are free in `before` and
\* occupied in `after`
SlotsCost(before, after) ==
    Cardinality({i \in 0..1 : before[i] = 0 /\ after[i] # 0})
      + 2 * Cardinality({i \in 2..4 : before[i] = 0 /\ after[i] # 0})
      + 3 * Cardinality({i \in 5..6 : before[i] = 0 /\ after[i] # 0})

\* C19: the reward step returns for an accepted move is the number of tiles
\* the move placed in a staging row (none when the target is the penalty
\* row), plus the projected row and column bonuses of the move, minus the
\* tiered cost of every penalty slot the move occupied, the slot of the
\* first-player token included.
C19_Reward ==
    [][(last'.op = "step" /\ last'.ok) =>
          LET p   == game.player_turn
              m   == last'.move
              n   == game.drawing_pit[m[1]][m[2]]
              mid == play_turn(game, p, m[1], m[2], m[3]).g
              an  == action_analisys(mid, p, m[2], m[3])
              placed == IF m[3] = 5 THEN 0
                        ELSE Min(n, FreeSlots(game, p, m[3]))
          IN  last'.reward
                = placed + an.expected_row_points + an.expected_column_point
                    - SlotsCost(penalty_row_of(game, p),
                                penalty_row_of(mid, p))]_vars


\* C20: a step with an id outside 0..179 is treated as an illegal move: it
\* returns as a rejected move does, changes nothing in the game, and no
\* index out of range is used on the pools, the staging rows or the wall.
C20_OutOfRangeIdRejected ==
    [][("id" \in DOMAIN last' /\ ~game.is_done_phase) =>
          /\ ~last'.raised
          /\ ~last'.ok
          /\ SameGame(game, game')]_vars


\* C21: an accepted play_turn leaves the other player's staging rows, wall,
\* penalty track and score as they were, and leaves the mover's wall and
\* score as they were.
C21_PlayTurnFrame ==
    [][(last'.op = "step" /\ last'.ok) =>
          LET p   == game.player_turn
              m   == last'.move
              mid == IF game'.is_done_phase
                     THEN play_turn(game, p, m[1], m[2], m[3]).g ELSE game'
          IN  /\ rows_of(mid, Other(p)) = rows_of(game, Other(p))
              /\ board_of(mid, Other(p)) = board_of(game, Other(p))
              /\ penalty_row_of(mid, Other(p)) = penalty_row_of(game, Other(p))
              /\ score_of(mid, Other(p)) = score_of(game, Other(p))
              /\ board_of(mid, p) = board_of(game, p)
              /\ score_of(mid, p) = score_of(game, p)]_vars

\* in round 2 P2 has taken the first-player token while P1 holds points,
\* wall cells and a partly filled staging row
C21_Witness ==
    /\ rounds = 2 /\ ~game.is_done_phase
    /\ last.op = "step" /\ last.ok /\ last.move[1] = 5
    /\ game.player_turn = "P1" /\ first_center = "P2"
    /\ Occupied(penalty_row_of(game, "P2")) >= 1
    /\ score_of(game, "P1") > 0
    /\ CellsSet(board_of(game, "P1")) >= 1
    /\ Occupied(rows_of(game, "P1")[4]) \in 1..4


\* C22: creating the pools of a new round leaves both walls, all staging
\* rows and both scores as they were, empties both penalty tracks, puts
\* exactly 4 tiles in each of the 5 factories and none in the centre, and
\* clears the round-complete flag.
C22_NewRoundFrame ==
    [][last'.op = "create_drawing_pit" =>
          /\ \A p \in Players :
                /\ board_of(game', p) = board_of(game, p)
                /\ rows_of(game', p) = rows_of(game, p)
                /\ score_of(game', p) = score_of(game, p)
                /\ penalty_row_of(game', p) = ZeroPenalty
          /\ \A i \in 0..4 :
                /\ \A c \in Colors : game'.drawing_pit[i][c] \in 0..4
                /\ game'.drawing_pit[i][0] + game'.drawing_pit[i][1]
                     + game'.drawing_pit[i][2] + game'.drawing_pit[i][3]
                     + game'.drawing_pit[i][4] = 4
          /\ game'.drawing_pit[5] = ZeroPit
          /\ ~game'.is_done_phase]_vars

\* the pools of round 3 have been created for a P1 with points, wall cells
\* and a partly filled staging row
C22_Witness ==
    /\ last.op = "create_drawing_pit" /\ rounds = 3
    /\ score_of(game, "P1") > 0
    /\ CellsSet(board_of(game, "P1")) >= 4
    /\ Occupied(rows_of(game, "P1")[4]) \in 1..4


\* C23: once the round is complete and gameover is set, every further step
\* is rejected, both flags stay set, and the scores, walls, staging rows and
\* penalty tracks of both players stay as they are.
C23_Absorbing ==
    [][(game.is_done_phase /\ game.gameover /\ last'.op = "step") =>
          /\ ~last'.ok
          /\ game'.is_done_phase /\ game'.gameover
          /\ \A p \in Players :
                /\ score_of(game', p) = score_of(game, p)
                /\ board_of(game', p) = board_of(game, p)
                /\ rows_of(game', p) = rows_of(game, p)
                /\ penalty_row_of(game', p) = penalty_row_of(game, p)]_vars

C24_DraftPools ==
    [][(last'.op = "step" /\ last'.ok) =>
          LET f   == last'.move[1]
              c   == last'.move[2]
              old == game.drawing_pit
              new == game'.drawing_pit
          IN  IF f # 5
              THEN /\ new[f] = ZeroPit
                   /\ \A k \in Colors :
                         new[5][k] = IF k = c THEN old[5][k]
                                     ELSE old[5][k] + old[f][k]
                   /\ \A i \in 0..4 : i # f => new[i] = old[i]
              ELSE /\ new[5][c] = 0
                   /\ \A k \in Colors : k # c => new[5][k] = old[5][k]
                   /\ \A i \in 0..4 : new[i] = old[i]]_vars

\* colour 2 has just been drafted from a factory while the centre holds a
\* tile of colour 2 and tiles of colour 1 sent there by factory drafts
C24_Witness ==
    /\ last.op = "step" /\ last.ok
    /\ last.move[1] # 5 /\ last.move[2] = 2
    /\ game.drawing_pit[5][2] >= 1
    /\ game.drawing_pit[5][1] >= 3
    /\ \E i \in 0..4 : game.drawing_pit[i] # ZeroPit


\* C25: within a round the active player changes at every accepted move
\* and at no other step: an accepted step hands the turn to the other
\* player, a rejected step leaves it where it was, so accepted moves are
\* made by the two players in turn.
C25_TurnAlternates ==
    [][last'.op = "step" =>
          game'.player_turn = IF last'.ok THEN Other(game.player_turn)
                              ELSE game.player_turn]_vars

\* a step has just been rejected in the middle of a round, with P2 to move
C25_Witness ==
    /\ last.op = "step" /\ ~last.ok
    /\ ~game.is_done_phase
    /\ PoolTiles(game) \in 1..19
    /\ game.player_turn = "P2"


\* C26: for every set cell (r, c) of a wall, compute_row_point is the
\* length of the maximal run of set cells of row r that contains c, minus
\* one, and compute_column_point is the same for column c: no wrap-around,
\* and a set cell separated from (r, c) by an empty cell does not count.
C26_AdjacencyPoints ==
    \A p \in Players : \A r \in RowIdx : \A c \in RowIdx :
        board_of(game, p)[r][c] = 1 =>
            /\ compute_row_point(game, r, c, p)
                 = RunLength(board_of(game, p)[r], c) - 1
            /\ compute_column_point(game, r, c, p)
                 = RunLength([i \in RowIdx |-> board_of(game, p)[i][c]], r) - 1

\* after round scoring a wall has a row with a run of two and a third set
\* cell apart from it, on either side, and a column of the same shape
C26_Witness ==
    /\ last.op = "calculate_score"
    /\ \E p \in Players :
          LET wall == board_of(game, p)
          IN  /\ \E r \in RowIdx : \E c \in 2..4 :
                    /\ wall[r][c] = 1 /\ RunLength(wall[r], c) = 2
                    /\ \E j \in 0..(c - 2) : wall[r][j] = 1 /\ wall[r][j + 1] = 0
              /\ \E c \in RowIdx : \E r \in 0..2 :
                    /\ wall[r][c] = 1
                    /\ RunLength([i \in RowIdx |-> wall[i][c]], r) = 2
                    /\ \E j \in (r + 2)..4 : wall[j][c] = 1 /\ wall[j - 1][c] = 0


\* C27: round scoring charges the penalty track after all completed rows
\* have been scored: the score becomes the score reached by the rows minus
\* the sum of the costs of the occupied slots (1 for slots 0-1, 2 for slots
\* 2-4, 3 for slots 5-6; 14 for a full track), or zero when that is negative.
C27_PenaltyAfterRows ==
    [][(last'.op = "step" /\ game'.is_done_phase /\ ~game'.gameover) =>
          LET m   == last'.move
              mid == IF last'.ok
                     THEN play_turn(game, game.player_turn, m[1], m[2], m[3]).g
                     ELSE game
          IN  \A p \in Players :
                LET after_rows == RoundScoring(board_of(mid, p), rows_of(mid, p),
                                               score_of(mid, p), 0).score
                    track      == penalty_row_of(mid, p)
                IN  /\ score_of(game', p)
                         = Max(0, after_rows - PenaltyCharge(track))
                    /\ Occupied(track) = 7 =>
                         score_of(game', p) = Max(0, after_rows - 14)]_vars

\* a round has just been scored: one player keeps points after paying for a
\* partly occupied track, the other has a full track
C27_Witness ==
    /\ last.op = "step" /\ last.ok /\ game.is_done_phase
    /\ \E p \in Players :
          /\ score_of(game, p) > 0
          /\ Occupied(penalty_row_of(game, p)) \in 1..6
          /\ Occupied(penalty_row_of(game, Other(p))) = 7


\* C28: every accepted move drafts at least one tile and lowers the total
\* of the six pools by exactly the number drafted, no factory count grows,
\* no pool count is negative, the pools never hold more than 20 tiles and
\* the round is complete exactly when they hold none: a round that starts
\* with 20 tiles is complete after at most 20 accepted moves.
C28_PoolsShrink ==
    [][last'.op = "step" =>
          LET old == game.drawing_pit
              new == game'.drawing_pit
              m   == last'.move
          IN  /\ last'.ok =>
                    /\ old[m[1]][m[2]] >= 1
                    /\ PoolTiles(game') = PoolTiles(game) - old[m[1]][m[2]]
              /\ ~last'.ok => new = old
              /\ \A i \in 0..4 : \A k \in Colors : new[i][k] <= old[i][k]
              /\ \A i \in Pits : \A k \in Colors : new[i][k] >= 0
              /\ PoolTiles(game') <= 20
              /\ game'.is_done_phase <=> PoolTiles(game') = 0]_vars

\* a centre draft has just been accepted in the middle of a round
C28_Witness ==
    /\ last.op = "step" /\ last.ok /\ last.move[1] = 5
    /\ ~game.is_done_phase
    /\ PoolTiles(game) \in 1..15
    /\ \E i \in 0..4 : game.drawing_pit[i] # ZeroPit
    /\ game.drawing_pit[5] # ZeroPit


\* the wall of player p with row t cut down to the set cells contiguous
\* with column col
RunOnly(wall, t, col) ==
    [wall EXCEPT ![t] = [j \in RowIdx |->
        IF /\ j # col
           /\ \A i \in RowIdx : (Min(j, col) <= i /\ i <= Max(j, col) /\ i # col)
                                   => wall[t][i] = 1
        THEN wall[t][j] ELSE 0]]

\* C30: for an accepted move that fills staging row t with colour c, the
\* projected row value of action_analisys depends only on the set cells of
\* wall row t contiguous with column (c + t) mod 5: set cells separated
\* from that column by an empty cell do not contribute.  For a move that
\* leaves row t short of its capacity both projected values are 0.
C30_ProjectedRowValue ==
    [][(last'.op = "step" /\ last'.ok /\ last'.move[3] # 5) =>
          LET p   == game.player_turn
              m   == last'.move
              c   == m[2]
              t   == m[3]
              mid == play_turn(game, p, m[1], c, t).g
              a   == action_analisys(mid, p, c, t)
              cut == set_board(mid, p,
                               RunOnly(board_of(mid, p), t, (c + t) % 5))
          IN  IF RowFullOf(rows_of(mid, p)[t], c)
              THEN a.expected_row_points
                     = action_analisys(cut, p, c, t).expected_row_points
              ELSE /\ a.expected_row_points = 0
                   /\ a.expected_column_point = 0]_vars


\* C31: drafting never deadlocks.  In every reachable state a draft of a
\* colour a pool holds into the penalty row (target 5) is legal for the
\* player to move, so that player has a legal move whenever a pool holds a
\* tile and during every drafting phase; the legal set (of valid_actions
\* for either player, and of the wrapper's legal_actions) is empty exactly
\* when all pools are empty.
C31_NoDraftingDeadlock ==
    /\ \A pit \in Pits : \A c \in Colors :
          game.drawing_pit[pit][c] >= 1 =>
              /\ valid_move(game, game.player_turn, pit, c, 5)
              /\ <<pit, c, 5>> \in valid_actions(game, game.player_turn)
    /\ ~game.is_done_phase => valid_actions(game, game.player_turn) # {}
    /\ \A p \in Players : valid_actions(game, p) = {} <=> PoolsEmpty(game)
    /\ legal_actions(game, player) = {} <=> PoolsEmpty(game)

\* in the middle of a round the player to move holds a colour in staging
\* row 0 that keeps another available colour out of it, while the draft of
\* that colour into the penalty row is legal
C31_Witness ==
    /\ last.op = "step" /\ last.ok
    /\ ~game.is_done_phase
    /\ PoolTiles(game) \in 1..19
    /\ \E pit \in Pits : \E c \in Colors :
          /\ game.drawing_pit[pit][c] >= 1
          /\ rows_of(game, game.player_turn)[0][0] \notin {0, c + 1}
          /\ ~valid_move(game, game.player_turn, pit, c, 0)
          /\ valid_move(game, game.player_turn, pit, c, 5)


\* no staging row r of either player holds a colour c whose wall cell
\* (r, (c + r) mod 5) is set
NoStagedOnSetCell(G) ==
    \A p \in Players : \A r \in RowIdx : \A i \in 0..r :
        rows_of(G, p)[r][i] # 0 =>
            board_of(G, p)[r][(rows_of(G, p)[r][i] - 1 + r) % 5] = 0

\* the staging rows of player p that round scoring will move to the wall
CompletedRows(G, p) ==
    {r \in RowIdx : \E c \in Colors : RowFullOf(rows_of(G, p)[r], c)}

\* C32: in a new game and after every move, round scoring and creation of
\* new pools, and between a move and the scoring that follows it in the same
\* step, no staging row r holds a colour c whose wall cell (r, (c + r) mod 5)
\* is set; so round scoring sets one new wall cell for each completed row.
C32_StagedColourNotOnWall ==
    [][LET m   == last'.move
           mid == IF ~game'.is_done_phase THEN game'
                  ELSE IF last'.ok
                       THEN play_turn(game, game.player_turn,
                                      m[1], m[2], m[3]).g
                       ELSE game
       IN  /\ last.op = "new" => NoStagedOnSetCell(game)
           /\ NoStagedOnSetCell(game')
           /\ last'.op = "step" =>
                 /\ NoStagedOnSetCell(mid)
                 /\ game'.is_done_phase =>
                       \A p \in Players :
                          CellsSet(board_of(game', p))
                            = CellsSet(board_of(mid, p))
                                + Cardinality(CompletedRows(mid, p))]_vars

\* in a later round a player has just put a colour in staging row 0 while
\* wall row 0 holds the cell of another colour that a pool still offers
C32_Witness ==
    /\ rounds >= 2 /\ ~game.is_done_phase
    /\ last.op = "step" /\ last.ok /\ last.move[3] = 0
    /\ LET p == Other(game.player_turn)
       IN  /\ rows_of(game, p)[0][0] = last.move[2] + 1
           /\ \E c \in Colors :
                 /\ board_of(game, p)[0][c] = 1
                 /\ \E pit \in Pits : game.drawing_pit[pit][c] >= 1

====
